---- MODULE Spec2Model ----
(***************************************************************************)
(* Verification model of the scoring service:                              *)
(*   - the traffic job polling loop and the formatting of its result       *)
(*     (scoring_algorithms/traffic.py and routers/traffic/logic.py),       *)
(*   - the shared database connection pool (database.py) with the          *)
(*     application startup and shutdown hooks (fastapi_app.py),            *)
(*   - the dispatch pipeline request_handling (request_processor.py),      *)
(*   - the demographics, income, competition and complementary score       *)
(*     calculators (routers/*/logic.py and scoring_algorithms/*.py),       *)
(*   - the calls the competition, complementary and traffic calculators    *)
(*     make to the external services: login, dataset fetch, job            *)
(*     submission and status poll.                                         *)
(***************************************************************************)
EXTENDS Integers, Sequences, FiniteSets, TLC

(***************************************************************************)
(* Bounds of the model.                                                    *)
(***************************************************************************)
\* ceilings 0..MaxCeiling are passed to poll_job_status besides the default
MaxCeiling == 3

(***************************************************************************)
(* Python values.  A dictionary key that is missing is Absent, a key whose *)
(* value is JSON null is None.                                             *)
(***************************************************************************)
Absent == "<absent>"
None == "<None>"

\* dict.get(key, default): the default is used only when the key is missing
DictGet(value, default) == IF value = Absent THEN default ELSE value

\* str(x) as used by an f-string: None is printed as the text "None"
Str(value) == IF value = None THEN "None" ELSE value

\* truth value of a string-or-None field
Truthy(value) == value \notin {Absent, None, ""}

(***************************************************************************)
(* Traffic job polling.                                                    *)
(***************************************************************************)
Impls == {"scoring_algorithms", "routers"}

\* default of the max_attempts parameter of scoring_algorithms.poll_job_status
DefaultMaxAttempts == 60
\* the local max_attempts of routers.poll_job_status
RoutersMaxAttempts == 60

Ceilings == (0..MaxCeiling) \cup {DefaultMaxAttempts}

NonTerminalStatuses == {"pending", "running"}
UnrecognizedStatuses == {"weird", Absent}
FailedStatuses == {"failed", "canceled"}

\* one element of result.results
ResultItems ==
    { [error |-> e, score |-> s, storefront_score |-> s, area_score |-> s] :
        e \in {Absent}, s \in {0, 85} }
    \cup
    { [error |-> e, score |-> 0, storefront_score |-> 0, area_score |-> 0] :
        e \in {None, "", "no screenshot"} }

EmptyList == [tag |-> "list", items |-> <<>>]
EmptyDict == [tag |-> "dict", results |-> [tag |-> Absent, items |-> <<>>]]

\* the values of the "result" key of a job payload
ResultValues ==
    { [tag |-> Absent, results |-> [tag |-> Absent, items |-> <<>>]],
      [tag |-> None, results |-> [tag |-> Absent, items |-> <<>>]],
      EmptyDict,
      [tag |-> "dict", results |-> [tag |-> None, items |-> <<>>]],
      [tag |-> "dict", results |-> EmptyList] }
    \cup
    { [tag |-> "dict", results |-> [tag |-> "list", items |-> <<i>>]] :
        i \in ResultItems }

NoResult == [tag |-> Absent, results |-> [tag |-> Absent, items |-> <<>>]]

\* the responses of GET /job/{id}
Responses ==
    { [http |-> "ok", status |-> s, error |-> Absent, result |-> NoResult] :
        s \in NonTerminalStatuses \cup UnrecognizedStatuses }
    \cup
    { [http |-> "ok", status |-> "done", error |-> Absent, result |-> r] :
        r \in ResultValues }
    \cup
    { [http |-> "ok", status |-> s, error |-> e, result |-> NoResult] :
        s \in FailedStatuses, e \in {Absent, None, "quota exceeded"} }
    \cup
    { [http |-> "error", status |-> Absent, error |-> Absent, result |-> NoResult] }

NoResponse == [http |-> "none", status |-> Absent, error |-> Absent, result |-> NoResult]

NoException == [type |-> "none", status |-> Absent, text |-> ""]

VARIABLES
    impl,           \* which of the two implementations of the traffic logic runs
    ceiling,        \* the attempt ceiling the caller wants
    max_attempts,   \* max_attempts of poll_job_status
    attempt,        \* attempt of poll_job_status
    poll_pc,        \* position of the coroutine calculate_traffic_score
    job_data,       \* job_data of poll_job_status: the last response body
    raised,         \* the exception that ended the coroutine
    score_data,     \* the value format_traffic_results returned
    requests,       \* number of GET /job/{id} requests issued
    sleeps,         \* number of asyncio.sleep calls made
    served,         \* service side: number of responses sent
    statuses,       \* service side: the statuses sent so far
    last_served     \* service side: the last response sent

traffic_vars == <<impl, ceiling, max_attempts, attempt, poll_pc, job_data, raised,
                  score_data, requests, sleeps, served, statuses, last_served>>

VARIABLES
    pool,              \* Database.pool: the shared pool reference
    last_refresh_time, \* Database.last_refresh_time
    now,               \* time.time()
    pstate,            \* the state of every pool object
    npools,            \* number of pool objects created so far
    pc,                \* position of every request task in Database.connection
    old_pool,          \* old_pool of refresh_pool, per task
    conn,              \* the pool a task holds a connection of
    acquired,          \* the state the pool was in when the task acquired from it
    su_pc,             \* position of startup_event
    sd_pc,             \* position of shutdown_event
    sd_pool,           \* the pool close_pool is closing
    cycles,            \* per pool: the create-then-close cycles run to replace it
    event,             \* per task: how its last Database operation ended inside
    returned,          \* per task: what the caller of that operation received
    release_log        \* the last release: by which task, into the pool the
                       \* connection came from or not, and whether the shared
                       \* reference named another pool by then

pool_vars == <<pool, last_refresh_time, now, pstate, npools, pc, old_pool, conn,
               acquired, su_pc, sd_pc, sd_pool, cycles, event, returned,
               release_log>>

VARIABLES
    req,               \* the input value
    input_type,        \* the input schema or None
    output_type,       \* the output schema or None
    custom_function,   \* the domain function or None
    wrap_output,       \* whether the envelope is asked for
    rh_pc,             \* position of the call: "start", "awaiting", "done"
    output,            \* the local variable output
    invoked,           \* number of calls of the domain function in this call
    rh_raised,         \* the HTTPException that left request_handling
    rh_error,          \* another exception that left request_handling
    rh_returned,       \* the value request_handling returned
    calls,             \* number of calls started
    issued             \* the request ids of the envelopes returned so far

dispatch_vars == <<req, input_type, output_type, custom_function, wrap_output,
                   rh_pc, output, invoked, rh_raised, rh_error, rh_returned,
                   calls, issued>>

VARIABLES
    calc,                     \* the calculator that runs
    entry,                    \* its entry point: "routers" or "scoring_algorithms"
    rows,                     \* the rows the spatial query returned
    businesses,               \* the records the dataset call returned
    target_age,
    sex_preference,
    target_income_level,
    target_num_per_category,
    calc_pc,                  \* "ready" or "done"
    score_out                 \* the dict the calculator returned, or what it raised

calc_vars == <<calc, entry, rows, businesses, target_age, sex_preference,
               target_income_level, target_num_per_category, calc_pc, score_out>>

VARIABLES
    inv_calc,                 \* per invocation: "competition", "complementary", "traffic"
    inv_impl,                 \* per invocation: "routers" or "scoring_algorithms"
    inv_req,                  \* per invocation: the request it serves
    inv_pc,                   \* per invocation: its position in the calculator
    auth_token,               \* per invocation: the local variable auth_token
    session,                  \* per invocation: the ClientSession it has open
    http_calls,               \* per invocation: the HTTP calls it has made
    api_attempt,              \* per invocation: attempt of poll_job_status
    api_out,                  \* per invocation: what the calculator returned or raised
    tokens_issued,            \* the tokens the services have answered logins with
    sessions_opened,          \* the ClientSession objects constructed so far
    sessions_closed           \* the ones that were closed

api_vars == <<inv_calc, inv_impl, inv_req, inv_pc, auth_token, session, http_calls,
              api_attempt, api_out, tokens_issued, sessions_opened, sessions_closed>>

vars == <<traffic_vars, pool_vars, dispatch_vars, calc_vars, api_vars>>

\* the ceiling poll_job_status runs with
MaxAttemptsOf(i, c) ==
    IF i = "routers" THEN RoutersMaxAttempts ELSE c

NoScore == [tag |-> "none", score |-> 0, storefront_score |-> 0, area_score |-> 0,
            explanation |-> "", detail |-> "",
            score_quality |-> "", storefront_quality |-> "", area_quality |-> ""]

TrafficInit ==
    /\ impl \in Impls
    /\ ceiling \in Ceilings
    /\ max_attempts = MaxAttemptsOf(impl, ceiling)
    /\ attempt = 0
    /\ poll_pc = "loop"
    /\ job_data = NoResponse
    /\ raised = NoException
    /\ score_data = NoScore
    /\ requests = 0
    /\ sleeps = 0
    /\ served = 0
    /\ statuses = {}
    /\ last_served = NoResponse

\* the loop stopping one attempt early
LoopConditionShort(a, m) == a < m - 1

\* the loop allowing one attempt more
LoopConditionInclusive(a, m) == a <= m

\* while attempt < max_attempts
LoopCondition(a, m) == a < m

\* attempt += 1; session.get(status_url)
PollRequest ==
    /\ poll_pc = "loop"
    /\ LoopCondition(attempt, max_attempts)
    /\ attempt' = attempt + 1
    /\ requests' = requests + 1
    /\ poll_pc' = "awaiting"
    /\ UNCHANGED <<impl, ceiling, max_attempts, job_data, raised, score_data,
                   sleeps, served, statuses, last_served>>
    /\ UNCHANGED <<pool_vars, dispatch_vars, calc_vars, api_vars>>

\* the loop ends without a return: raise Exception("... timed out ...")
PollTimeout ==
    /\ poll_pc = "loop"
    /\ ~LoopCondition(attempt, max_attempts)
    /\ poll_pc' = "failed"
    /\ raised' = [type |-> "timeout", status |-> Absent, text |-> ""]
    /\ UNCHANGED <<impl, ceiling, max_attempts, attempt, job_data, score_data,
                   requests, sleeps, served, statuses, last_served>>
    /\ UNCHANGED <<pool_vars, dispatch_vars, calc_vars, api_vars>>

\* the error text of the service dropped
ErrorMsgDropped(data) == "Unknown error"

\* error_msg = job_data.get("error", "Unknown error")
ErrorMsg(data) == Str(DictGet(data.error, "Unknown error"))

\* a loop that does not sleep after the answer to its last permitted attempt
HandleStatusNoLastSleep(data) ==
    IF data.http = "error"
    THEN [pc |-> "failed", exc |-> [type |-> "http", status |-> Absent, text |-> ""],
          sleep |-> 0]
    ELSE IF data.status = "done"
    THEN [pc |-> "returned", exc |-> NoException, sleep |-> 0]
    ELSE IF data.status \in FailedStatuses
    THEN [pc |-> "failed",
          exc |-> [type |-> "job_terminated", status |-> data.status,
                   text |-> ErrorMsg(data)],
          sleep |-> 0]
    ELSE IF attempt >= max_attempts
    THEN [pc |-> "loop", exc |-> NoException, sleep |-> 0]
    ELSE [pc |-> "sleeping", exc |-> NoException, sleep |-> 1]

\* what the body of the loop does with one response
HandleStatus(data) ==
    IF data.http = "error"
    THEN [pc |-> "failed", exc |-> [type |-> "http", status |-> Absent, text |-> ""],
          sleep |-> 0]
    ELSE IF data.status = "done"
    THEN [pc |-> "returned", exc |-> NoException, sleep |-> 0]
    ELSE IF data.status \in FailedStatuses
    THEN [pc |-> "failed",
          exc |-> [type |-> "job_terminated", status |-> data.status,
                   text |-> ErrorMsg(data)],
          sleep |-> 0]
    ELSE [pc |-> "sleeping", exc |-> NoException, sleep |-> 1]

\* the service answers and the coroutine resumes with the response
PollResponse ==
    /\ poll_pc = "awaiting"
    /\ \E r \in Responses :
        /\ served' = served + 1
        /\ statuses' = statuses \cup {IF r.http = "error" THEN "http_error" ELSE r.status}
        /\ last_served' = r
        /\ job_data' = r
        /\ poll_pc' = HandleStatus(r).pc
        /\ raised' = HandleStatus(r).exc
        /\ sleeps' = sleeps + HandleStatus(r).sleep
    /\ UNCHANGED <<impl, ceiling, max_attempts, attempt, score_data, requests>>
    /\ UNCHANGED <<pool_vars, dispatch_vars, calc_vars, api_vars>>

\* asyncio.sleep returns
SleepDone ==
    /\ poll_pc = "sleeping"
    /\ poll_pc' = "loop"
    /\ UNCHANGED <<impl, ceiling, max_attempts, attempt, job_data, raised, score_data,
                   requests, sleeps, served, statuses, last_served>>
    /\ UNCHANGED <<pool_vars, dispatch_vars, calc_vars, api_vars>>

\* the CancelledError swallowed, the loop goes on
AfterCancelSwallowed == "loop"

\* where a CancelledError thrown into the coroutine leaves it
AfterCancel == "cancelled"

\* the surrounding request is cancelled at an await point of the loop
Cancel ==
    /\ poll_pc \in {"awaiting", "sleeping"}
    /\ poll_pc' = AfterCancel
    /\ raised' = [type |-> "cancelled", status |-> Absent, text |-> ""]
    /\ UNCHANGED <<impl, ceiling, max_attempts, attempt, job_data, score_data,
                   requests, sleeps, served, statuses, last_served>>
    /\ UNCHANGED <<pool_vars, dispatch_vars, calc_vars, api_vars>>

\* job_result.get("result", {}).get("results", []):
\* the second get is called on None when the "result" key holds null
ResultsData(job_result) ==
    LET result == IF job_result.result.tag = Absent THEN EmptyDict
                  ELSE job_result.result
    IN  IF result.tag = None THEN [tag |-> "AttributeError", items |-> <<>>]
        ELSE IF result.results.tag = Absent THEN EmptyList
        ELSE result.results

ZeroScore(explanation, detail) ==
    [tag |-> "value", score |-> 0, storefront_score |-> 0, area_score |-> 0,
     explanation |-> explanation, detail |-> detail,
     score_quality |-> "", storefront_quality |-> "", area_quality |-> ""]

\* the overall tiers with exclusive lower bounds
ScoreQualityExclusive(traffic_score) ==
    IF traffic_score > 80 THEN "excellent"
    ELSE IF traffic_score > 60 THEN "good"
    ELSE IF traffic_score > 40 THEN "moderate"
    ELSE IF traffic_score > 20 THEN "below average"
    ELSE "poor"

\* score_quality = "excellent" if traffic_score >= 80 else "good" if ... else "poor"
ScoreQuality(traffic_score) ==
    IF traffic_score >= 80 THEN "excellent"
    ELSE IF traffic_score >= 60 THEN "good"
    ELSE IF traffic_score >= 40 THEN "moderate"
    ELSE IF traffic_score >= 20 THEN "below average"
    ELSE "poor"

\* storefront_quality = "high" if storefront_score >= 70 else "moderate" if ... else "low"
StorefrontQuality(storefront_score) ==
    IF storefront_score >= 70 THEN "high"
    ELSE IF storefront_score >= 40 THEN "moderate"
    ELSE "low"

\* area_quality = "busy" if area_score >= 70 else "moderate" if ... else "quiet"
AreaQuality(area_score) ==
    IF area_score >= 70 THEN "busy"
    ELSE IF area_score >= 40 THEN "moderate"
    ELSE "quiet"

format_traffic_results(job_result) ==
    LET results_data == ResultsData(job_result) IN
    IF results_data.tag = "AttributeError"
    THEN [NoScore EXCEPT !.tag = "AttributeError"]
    ELSE IF results_data.tag = None \/ results_data.items = <<>>
    THEN ZeroScore("No traffic analysis data available", "")
    ELSE LET result == results_data.items[1] IN
         IF Truthy(result.error)
         THEN ZeroScore("Traffic analysis failed: ", result.error)
         ELSE [tag |-> "value", score |-> result.score,
               storefront_score |-> result.storefront_score,
               area_score |-> result.area_score,
               explanation |-> "Overall traffic score", detail |-> "",
               score_quality |-> ScoreQuality(result.score),
               storefront_quality |-> StorefrontQuality(result.storefront_score),
               area_quality |-> AreaQuality(result.area_score)]

\* score_data = format_traffic_results(job_result, ...); return score_data
FormatResults ==
    /\ poll_pc = "returned"
    /\ score_data' = format_traffic_results(job_data)
    /\ IF score_data'.tag = "AttributeError"
       THEN /\ poll_pc' = "failed"
            /\ raised' = [type |-> "AttributeError", status |-> Absent, text |-> ""]
       ELSE /\ poll_pc' = "formatted"
            /\ UNCHANGED raised
    /\ UNCHANGED <<impl, ceiling, max_attempts, attempt, job_data,
                   requests, sleeps, served, statuses, last_served>>
    /\ UNCHANGED <<pool_vars, dispatch_vars, calc_vars, api_vars>>

TrafficNext ==
    \/ PollRequest
    \/ PollTimeout
    \/ PollResponse
    \/ SleepDone
    \/ Cancel
    \/ FormatResults

(***************************************************************************)
(* The shared connection pool of class Database.                           *)
(***************************************************************************)
\* number of concurrent request tasks
NumTasks == 2
\* number of pool objects that can be created
MaxPools == 3
\* the clock advances at most MaxTicks times, by TickStep seconds each time
MaxTicks == 3
TickStep == 1800

refresh_interval == 3600
NoPool == 0

Tasks == 1..NumTasks
PoolIds == 1..MaxPools

\* no connection has been released
NoRelease == [task |-> 0, own |-> TRUE, stale |-> FALSE]

PoolInit ==
    /\ pool = NoPool
    /\ last_refresh_time = 0
    /\ now = 0
    /\ pstate = [p \in PoolIds |-> "uncreated"]
    /\ npools = 0
    /\ pc = [t \in Tasks |-> "idle"]
    /\ old_pool = [t \in Tasks |-> NoPool]
    /\ conn = [t \in Tasks |-> NoPool]
    /\ acquired = [t \in Tasks |-> "-"]
    /\ su_pc \in {"idle", "skipped"}
    /\ sd_pc = "idle"
    /\ sd_pool = NoPool
    /\ cycles = [p \in PoolIds |-> 0]
    /\ event = [t \in Tasks |-> "-"]
    /\ returned = [t \in Tasks |-> "-"]
    /\ release_log = NoRelease

\* requests are served between the end of startup_event (or without the
\* application, when Database is used on its own) and the start of
\* shutdown_event
Serving == su_pc \in {"skipped", "done"} /\ sd_pc = "idle"

\* time.time() - cls.last_refresh_time > cls.refresh_interval
Expired(t_now, t_last) == t_now - t_last > refresh_interval

\* the Database operation a task runs: task 1 probes with health_check, the
\* other tasks run queries with fetch
OpOf(t) == IF t = 1 THEN "health_check" ELSE "fetch"

\* the exceptions that can end the body of "async with cls.connection()"
Failures == {"create_failed", "acquire_failed", "execute_failed"}

\* fetch: return await conn.fetch(query, *args); nothing is caught
fetch(ev) == IF ev = "executed" THEN "rows" ELSE ev

\* a health_check that lets the exception through
health_check_uncaught(ev) == IF ev = "executed" THEN "True" ELSE ev

\* health_check: try: ... return True / except Exception: return False;
\* CancelledError is not an Exception and goes through
health_check(ev) ==
    IF ev = "executed" THEN "True"
    ELSE IF ev = "cancelled" THEN "cancelled"
    ELSE "False"

\* what the caller of the operation of task t receives
ResultOf(t, ev) ==
    IF ev = "-" THEN "-"
    ELSE IF OpOf(t) = "health_check" THEN health_check(ev)
    ELSE fetch(ev)

Outcome(t, ev) ==
    /\ event' = [event EXCEPT ![t] = ev]
    /\ returned' = [returned EXCEPT ![t] = ResultOf(t, ev)]

\* get_pool handing out the pool its refresh has replaced
GetPoolResultStale(t, current) ==
    IF old_pool[t] # NoPool THEN old_pool[t] ELSE current

\* return cls.pool
GetPoolResult(t, current) == current

\* async with pool.acquire() as conn: a pool that is closing or closed (or
\* None) raises, an open pool hands out a connection
Acquire(t, p, ps) ==
    LET st == IF p = NoPool THEN "none" ELSE ps[p] IN
    \E ok \in BOOLEAN :
        /\ acquired' = [acquired EXCEPT ![t] = st]
        /\ IF st = "open" /\ ok
           THEN /\ pc' = [pc EXCEPT ![t] = "using"]
                /\ conn' = [conn EXCEPT ![t] = p]
                /\ Outcome(t, "-")
           ELSE /\ pc' = [pc EXCEPT ![t] = "idle"]
                /\ conn' = conn
                /\ Outcome(t, "acquire_failed")

\* get_pool, first branch: if not cls.pool: await cls.create_pool()
GetPoolCreate(t) ==
    /\ Serving
    /\ pc[t] = "idle"
    /\ pool = NoPool
    /\ pc' = [pc EXCEPT ![t] = "creating"]
    /\ Outcome(t, "-")
    /\ UNCHANGED <<pool, last_refresh_time, now, pstate, npools, old_pool, conn,
                   acquired, su_pc, sd_pc, sd_pool, cycles>>
    /\ UNCHANGED <<release_log, traffic_vars, dispatch_vars, calc_vars, api_vars>>

\* a refresh that closes the old pool before it creates the new one
RefreshBeginCloseFirst(t) ==
    /\ Serving
    /\ pc[t] = "idle"
    /\ pool # NoPool
    /\ Expired(now, last_refresh_time)
    /\ old_pool' = [old_pool EXCEPT ![t] = pool]
    /\ pstate' = [pstate EXCEPT ![pool] = "closing"]
    /\ pool' = NoPool
    /\ pc' = [pc EXCEPT ![t] = "refresh_creating"]
    /\ Outcome(t, "-")
    /\ UNCHANGED <<last_refresh_time, now, npools, conn,
                   acquired, su_pc, sd_pc, sd_pool, cycles>>
    /\ UNCHANGED <<release_log, traffic_vars, dispatch_vars, calc_vars, api_vars>>

\* get_pool, second branch, and refresh_pool up to its first await:
\* old_pool = cls.pool; await cls.create_pool()
RefreshBegin(t) ==
    /\ Serving
    /\ pc[t] = "idle"
    /\ pool # NoPool
    /\ Expired(now, last_refresh_time)
    /\ old_pool' = [old_pool EXCEPT ![t] = pool]
    /\ pc' = [pc EXCEPT ![t] = "refresh_creating"]
    /\ Outcome(t, "-")
    /\ UNCHANGED <<pool, last_refresh_time, now, pstate, npools, conn,
                   acquired, su_pc, sd_pc, sd_pool, cycles>>
    /\ UNCHANGED <<release_log, traffic_vars, dispatch_vars, calc_vars, api_vars>>

\* get_pool, no branch taken: return cls.pool, and connection() acquires
\* from it without an await in between
GetPoolCurrent(t) ==
    /\ Serving
    /\ pc[t] = "idle"
    /\ pool # NoPool
    /\ ~Expired(now, last_refresh_time)
    /\ Acquire(t, GetPoolResult(t, pool), pstate)
    /\ UNCHANGED <<pool, last_refresh_time, now, pstate, npools, old_pool,
                   su_pc, sd_pc, sd_pool, cycles>>
    /\ UNCHANGED <<release_log, traffic_vars, dispatch_vars, calc_vars, api_vars>>

\* asyncpg.create_pool returns to the lazy creation of get_pool:
\* cls.pool = <new pool>; cls.last_refresh_time = time.time(); return cls.pool
CreatePoolDone(t) ==
    /\ pc[t] = "creating"
    /\ npools < MaxPools
    /\ LET new == npools + 1
           ps == [pstate EXCEPT ![new] = "open"] IN
        /\ npools' = new
        /\ pool' = new
        /\ pstate' = ps
        /\ last_refresh_time' = now
        /\ Acquire(t, GetPoolResult(t, new), ps)
    /\ UNCHANGED <<now, old_pool, su_pc, sd_pc, sd_pool, cycles>>
    /\ UNCHANGED <<release_log, traffic_vars, dispatch_vars, calc_vars, api_vars>>

\* asyncpg.create_pool returns to refresh_pool: the new pool is installed and
\* old_pool.close() starts (Pool.close returns at once on a closed pool)
RefreshSwap(t) ==
    /\ pc[t] = "refresh_creating"
    /\ npools < MaxPools
    /\ LET new == npools + 1
           old == old_pool[t]
           ps == [pstate EXCEPT ![new] = "open",
                                ![old] = IF @ = "closed" THEN "closed" ELSE "closing"] IN
        /\ npools' = new
        /\ pool' = new
        /\ pstate' = ps
        /\ last_refresh_time' = now
        /\ cycles' = [cycles EXCEPT ![old] = @ + 1]
        /\ pc' = [pc EXCEPT ![t] = "refresh_closing"]
    /\ UNCHANGED <<now, old_pool, conn, acquired, su_pc, sd_pc, sd_pool, event, returned>>
    /\ UNCHANGED <<release_log, traffic_vars, dispatch_vars, calc_vars, api_vars>>

\* old_pool.close() returns once every connection of the old pool has been
\* released; get_pool returns cls.pool and connection() acquires from it
RefreshCloseDone(t) ==
    /\ pc[t] = "refresh_closing"
    /\ \A u \in Tasks : conn[u] # old_pool[t]
    /\ LET ps == [pstate EXCEPT ![old_pool[t]] = "closed"] IN
        /\ pstate' = ps
        /\ Acquire(t, GetPoolResult(t, pool), ps)
    /\ old_pool' = [old_pool EXCEPT ![t] = NoPool]
    /\ UNCHANGED <<pool, last_refresh_time, now, npools, su_pc, sd_pc, sd_pool, cycles>>
    /\ UNCHANGED <<release_log, traffic_vars, dispatch_vars, calc_vars, api_vars>>

\* a failed creation that drops the shared pool: the old pool is closed and
\* the reference and its creation time are cleared
CreatePoolFailDropsPool(t) ==
    /\ pc[t] \in {"creating", "refresh_creating"}
    /\ pc' = [pc EXCEPT ![t] = "idle"]
    /\ old_pool' = [old_pool EXCEPT ![t] = NoPool]
    /\ pool' = NoPool
    /\ last_refresh_time' = 0
    /\ pstate' = IF pool = NoPool THEN pstate
                 ELSE [pstate EXCEPT ![pool] = "closing"]
    /\ Outcome(t, "create_failed")
    /\ UNCHANGED <<now, npools, conn, acquired, su_pc, sd_pc, sd_pool, cycles>>
    /\ UNCHANGED <<release_log, traffic_vars, dispatch_vars, calc_vars, api_vars>>

\* asyncpg.create_pool raises inside create_pool, before either assignment:
\* the exception leaves create_pool, refresh_pool, get_pool and connection()
CreatePoolFail(t) ==
    /\ pc[t] \in {"creating", "refresh_creating"}
    /\ pc' = [pc EXCEPT ![t] = "idle"]
    /\ old_pool' = [old_pool EXCEPT ![t] = NoPool]
    /\ Outcome(t, "create_failed")
    /\ UNCHANGED <<pool, last_refresh_time, now, pstate, npools, conn,
                   acquired, su_pc, sd_pc, sd_pool, cycles>>
    /\ UNCHANGED <<release_log, traffic_vars, dispatch_vars, calc_vars, api_vars>>

\* a release into whatever pool the shared reference names at that moment
ReleasePoolShared(t) == pool

\* pool = await cls.get_pool(); async with pool.acquire() as conn: the
\* context manager releases into the pool object it was entered on
ReleasePool(t) == conn[t]

\* the body of "async with cls.connection()" is left: the connection goes
\* back and the task holds it no longer
ConnectionReturned(t) ==
    /\ release_log' = [task |-> t, own |-> (ReleasePool(t) = conn[t]),
                        stale |-> (pool # conn[t])]
    /\ conn' = [conn EXCEPT ![t] = IF ReleasePool(t) = @ THEN NoPool ELSE @]
    /\ pc' = [pc EXCEPT ![t] = "idle"]
    /\ acquired' = [acquired EXCEPT ![t] = "-"]
    /\ UNCHANGED <<pool, last_refresh_time, now, pstate, npools, old_pool,
                   su_pc, sd_pc, sd_pool, cycles>>
    /\ UNCHANGED <<traffic_vars, dispatch_vars, calc_vars, api_vars>>

\* the body of "async with cls.connection() as conn" ends: the connection
\* goes back to the pool it came from
Release(t) ==
    /\ pc[t] = "using"
    /\ ConnectionReturned(t)
    /\ Outcome(t, "executed")

\* the statement raises inside "async with cls.connection() as conn": the
\* finally of connection() releases the connection and the exception goes on
ExecuteFail(t) ==
    /\ pc[t] = "using"
    /\ ConnectionReturned(t)
    /\ Outcome(t, "execute_failed")

\* the task is cancelled while the statement runs: CancelledError is raised
\* at the await and leaves through the same two context managers
CancelQuery(t) ==
    /\ pc[t] = "using"
    /\ ConnectionReturned(t)
    /\ Outcome(t, "cancelled")

\* the clock advances
Tick ==
    /\ now < MaxTicks * TickStep
    /\ now' = now + TickStep
    /\ UNCHANGED <<pool, last_refresh_time, pstate, npools, pc, old_pool, conn,
                   acquired, su_pc, sd_pc, sd_pool, cycles, event, returned>>
    /\ UNCHANGED <<release_log, traffic_vars, dispatch_vars, calc_vars, api_vars>>

\* startup_event: await Database.create_pool()
StartupBegin ==
    /\ su_pc = "idle"
    /\ su_pc' = "creating"
    /\ UNCHANGED <<pool, last_refresh_time, now, pstate, npools, pc, old_pool, conn,
                   acquired, sd_pc, sd_pool, cycles, event, returned>>
    /\ UNCHANGED <<release_log, traffic_vars, dispatch_vars, calc_vars, api_vars>>

\* asyncpg.create_pool returns to startup_event
StartupDone ==
    /\ su_pc = "creating"
    /\ npools < MaxPools
    /\ npools' = npools + 1
    /\ pool' = npools + 1
    /\ pstate' = [pstate EXCEPT ![npools + 1] = "open"]
    /\ last_refresh_time' = now
    /\ su_pc' = "done"
    /\ UNCHANGED <<now, pc, old_pool, conn, acquired, sd_pc, sd_pool, cycles,
                   event, returned>>
    /\ UNCHANGED <<release_log, traffic_vars, dispatch_vars, calc_vars, api_vars>>

\* shutdown_event, run by the server once its request tasks have ended:
\* close_pool: if cls.pool: await cls.pool.close()
ShutdownBegin ==
    /\ Serving
    /\ \A t \in Tasks : pc[t] = "idle"
    /\ IF pool # NoPool
       THEN /\ pstate' = [pstate EXCEPT ![pool] = "closing"]
            /\ sd_pool' = pool
            /\ sd_pc' = "closing"
            /\ pool' = pool
       ELSE /\ pool' = NoPool
            /\ sd_pc' = "done"
            /\ UNCHANGED <<pstate, sd_pool>>
    /\ UNCHANGED <<last_refresh_time, now, npools, pc, old_pool, conn,
                   acquired, su_pc, cycles, event, returned>>
    /\ UNCHANGED <<release_log, traffic_vars, dispatch_vars, calc_vars, api_vars>>

\* cls.pool.close() returns to close_pool: cls.pool = None
ShutdownDone ==
    /\ sd_pc = "closing"
    /\ pstate' = [pstate EXCEPT ![sd_pool] = "closed"]
    /\ pool' = NoPool
    /\ sd_pc' = "done"
    /\ UNCHANGED <<last_refresh_time, now, npools, pc, old_pool, conn,
                   acquired, su_pc, sd_pool, cycles, event, returned>>
    /\ UNCHANGED <<release_log, traffic_vars, dispatch_vars, calc_vars, api_vars>>

PoolNext ==
    \/ \E t \in Tasks : GetPoolCreate(t)
    \/ \E t \in Tasks : RefreshBegin(t)
    \/ \E t \in Tasks : GetPoolCurrent(t)
    \/ \E t \in Tasks : CreatePoolDone(t)
    \/ \E t \in Tasks : RefreshSwap(t)
    \/ \E t \in Tasks : RefreshCloseDone(t)
    \/ \E t \in Tasks : CreatePoolFail(t)
    \/ \E t \in Tasks : Release(t)
    \/ \E t \in Tasks : ExecuteFail(t)
    \/ \E t \in Tasks : CancelQuery(t)
    \/ Tick
    \/ StartupBegin
    \/ StartupDone
    \/ ShutdownBegin
    \/ ShutdownDone

(***************************************************************************)
(* request_handling: validation of the input value, the call of the domain *)
(* function, the envelope and the output coercion.                         *)
(***************************************************************************)
\* number of calls of request_handling in a run
MaxCalls == 2
\* number of distinct values uuid.uuid4() can draw
MaxUuid == 2

\* the fields the input schema requires
Fields == {"lat", "target_num_per_category"}

\* the input values: None, a dict whose fields are well-typed, ill-typed or
\* missing, or an instance of the schema
ReqValues ==
    { [tag |-> None, fields |-> [f \in Fields |-> "missing"]] }
    \cup { [tag |-> "dict", fields |-> fs] : fs \in [Fields -> {"ok", "bad", "missing"}] }
    \cup { [tag |-> "model", fields |-> [f \in Fields |-> "ok"]] }

\* bool(req): None and the empty dict are falsy
ReqTruthy(r) ==
    /\ r.tag # None
    /\ ~(r.tag = "dict" /\ \A f \in Fields : r.fields[f] = "missing")

\* input_type.model_validate(req): the fields a ValidationError lists
model_validate(r) ==
    IF r.tag = None THEN {"<model_type>"}
    ELSE {f \in Fields : r.fields[f] # "ok"}

InputTypes == {None, "ReqModel"}
\* no output schema, the schema of the domain result, or a plain mapping
OutputTypes == {None, "ResModel", "dict"}

\* the domain functions: what they do when awaited, and whether their
\* signature requires the req argument
CustomFunctions ==
    { [tag |-> None, needs_req |-> FALSE, does |-> "-"] }
    \cup { [tag |-> "fn", needs_req |-> n, does |-> d] :
              n \in BOOLEAN, d \in {"returns", "raises_http", "raises_exception"} }

\* exceptions and values
NoDetail == [prefix |-> "", message |-> "", errors |-> {}]
DomainHttpError ==
    [type |-> "HTTPException", status_code |-> 404,
     detail |-> [prefix |-> "", message |-> "not found", errors |-> {}]]
DomainException ==
    [type |-> "Exception", status_code |-> 0,
     detail |-> [prefix |-> "", message |-> "boom", errors |-> {}]]
MissingArgument ==
    [type |-> "Exception", status_code |-> 0,
     detail |-> [prefix |-> "", message |-> "missing 1 required positional argument: 'req'",
                 errors |-> {}]]
NothingRaised == [type |-> "-", status_code |-> 0, detail |-> NoDetail]

\* HTTPException(status_code=422, detail={"message": "Validation failed",
\*                                        "errors": e.errors()})
ValidationFailed(errors) ==
    [type |-> "HTTPException", status_code |-> 422,
     detail |-> [prefix |-> "", message |-> "Validation failed", errors |-> errors]]

\* an except clause that turns every exception into the 500 error
HandleExceptionWrapAll(e) ==
    [type |-> "HTTPException", status_code |-> 500,
     detail |-> [prefix |-> "An unexpected error occurred: ",
                 message |-> e.detail.message, errors |-> {}]]

\* except HTTPException: raise
\* except Exception as e: raise HTTPException(500, f"An unexpected error occurred: {str(e)}")
HandleException(e) ==
    IF e.type = "HTTPException" THEN e
    ELSE [type |-> "HTTPException", status_code |-> 500,
          detail |-> [prefix |-> "An unexpected error occurred: ",
                      message |-> e.detail.message, errors |-> {}]]

\* the values of output: the default "", the dict of the domain function,
\* the envelope around either, and an instance of the output schema
DefaultOutput == [shape |-> "str", data |-> "-", request_id |-> 0]
DomainOutput == [shape |-> "score", data |-> "-", request_id |-> 0]
Envelope(out, u) == [shape |-> "envelope", data |-> out.shape, request_id |-> u]
NoValue == [shape |-> "-", data |-> "-", request_id |-> 0]

\* what awaiting custom_function gives: called without req when req is falsy
CallResult(fn, with_req) ==
    IF fn.needs_req /\ ~with_req THEN [raised |-> MissingArgument, value |-> NoValue]
    ELSE IF fn.does = "returns" THEN [raised |-> NothingRaised, value |-> DomainOutput]
    ELSE IF fn.does = "raises_http" THEN [raised |-> DomainHttpError, value |-> NoValue]
    ELSE [raised |-> DomainException, value |-> NoValue]

\* output_type(**output) if output_type else output
Coerce(ot, out) ==
    IF ot = None THEN [raised |-> "-", value |-> out]
    ELSE IF out.shape = "str" THEN [raised |-> "TypeError", value |-> NoValue]
    ELSE IF ot = "dict" THEN [raised |-> "-", value |-> out]
    ELSE IF out.shape = "score"
         THEN [raised |-> "-", value |-> [out EXCEPT !.shape = "ResModel"]]
    ELSE [raised |-> "ValidationError", value |-> NoValue]

DispatchInputs ==
    /\ req \in ReqValues
    /\ input_type \in InputTypes
    /\ output_type \in OutputTypes
    /\ custom_function \in CustomFunctions
    /\ wrap_output \in BOOLEAN

DispatchInit ==
    /\ DispatchInputs
    /\ rh_pc = "start"
    /\ output = DefaultOutput
    /\ invoked = 0
    /\ rh_raised = NothingRaised
    /\ rh_error = "-"
    /\ rh_returned = NoValue
    /\ calls = 1
    /\ issued = <<>>

\* lines 57-65: the envelope with a request id drawn by uuid.uuid4(), then
\* res_body = output_type(**output) if output_type else output; return res_body
Complete(out) ==
    \E u \in 1..MaxUuid :
        LET wrapped == IF wrap_output THEN Envelope(out, u) ELSE out
            c == Coerce(output_type, wrapped) IN
        /\ output' = wrapped
        /\ rh_error' = c.raised
        /\ rh_returned' = c.value
        /\ issued' = IF c.value.shape = "envelope" THEN Append(issued, u) ELSE issued
        /\ rh_raised' = NothingRaised
        /\ rh_pc' = "done"

\* request_handling up to the await of the domain function: the validation
\* under "if req and input_type", then the call of custom_function
RequestHandlingBegin ==
    /\ rh_pc = "start"
    /\ IF ReqTruthy(req) /\ input_type # None /\ model_validate(req) # {}
       THEN /\ rh_raised' = ValidationFailed(model_validate(req))
            /\ rh_pc' = "done"
            /\ UNCHANGED <<output, invoked, rh_error, rh_returned, issued>>
       ELSE IF custom_function.tag = None
       THEN /\ Complete(output)
            /\ UNCHANGED invoked
       ELSE /\ invoked' = invoked + 1
            /\ rh_pc' = "awaiting"
            /\ UNCHANGED <<output, rh_raised, rh_error, rh_returned, issued>>
    /\ UNCHANGED <<req, input_type, output_type, custom_function, wrap_output, calls>>
    /\ UNCHANGED <<traffic_vars, pool_vars, calc_vars, api_vars>>

\* the domain function ends: its exception goes through the except clauses,
\* its value through the envelope and the coercion
RequestHandlingResume ==
    /\ rh_pc = "awaiting"
    /\ LET r == CallResult(custom_function, ReqTruthy(req)) IN
        IF r.raised # NothingRaised
        THEN /\ rh_raised' = HandleException(r.raised)
             /\ rh_pc' = "done"
             /\ UNCHANGED <<output, rh_error, rh_returned, issued>>
        ELSE Complete(r.value)
    /\ UNCHANGED <<req, input_type, output_type, custom_function, wrap_output,
                   invoked, calls>>
    /\ UNCHANGED <<traffic_vars, pool_vars, calc_vars, api_vars>>

\* the endpoint calls request_handling again, for another request: the
\* schemas, the domain function and wrap_output are those of the endpoint
NewCall ==
    /\ rh_pc = "done"
    /\ calls < MaxCalls
    /\ calls' = calls + 1
    /\ req' \in ReqValues
    /\ UNCHANGED <<input_type, output_type, custom_function, wrap_output>>
    /\ rh_pc' = "start"
    /\ output' = DefaultOutput
    /\ invoked' = 0
    /\ rh_raised' = NothingRaised
    /\ rh_error' = "-"
    /\ rh_returned' = NoValue
    /\ UNCHANGED issued
    /\ UNCHANGED <<traffic_vars, pool_vars, calc_vars, api_vars>>

DispatchNext ==
    \/ RequestHandlingBegin
    \/ RequestHandlingResume
    \/ NewCall

(***************************************************************************)
(* The score calculators: demographics, income, competition and            *)
(* complementary, each in its two entry points (routers/*/logic.py and     *)
(* scoring_algorithms/*.py).  Floats are exact rationals n/d; a rounded     *)
(* value is the integer value * 10^digits.                                 *)
(***************************************************************************)
\* longest row sequence a query returns
MaxRows == 2
\* longest business record list the dataset call returns
MaxRecords == 3

RECURSIVE GCD(_, _)
GCD(a, b) == IF b = 0 THEN a ELSE GCD(b, a % b)

Abs(x) == IF x < 0 THEN 0 - x ELSE x

\* the rational n/d in lowest terms, d > 0
Rat(n, d) ==
    LET g == GCD(Abs(n), Abs(d))
        s == IF d < 0 THEN 0 - 1 ELSE 1
    IN  [n |-> s * (n \div g), d |-> s * (d \div g)]

RAdd(x, y) == Rat(x.n * y.d + y.n * x.d, x.d * y.d)
RSub(x, y) == Rat(x.n * y.d - y.n * x.d, x.d * y.d)
RMul(x, y) == Rat(x.n * y.n, x.d * y.d)
RDiv(x, y) == Rat(x.n * y.d, x.d * y.n)
RLess(x, y) == x.n * y.d < y.n * x.d
RMax(x, y) == IF RLess(x, y) THEN y ELSE x
RMin(x, y) == IF RLess(y, x) THEN y ELSE x
RAbs(x) == [n |-> Abs(x.n), d |-> x.d]
Zero == Rat(0, 1)
One == Rat(1, 1)

\* round(x, digits) as the integer x * scale, scale = 10^digits; a tie goes
\* to the even neighbour
Round(x, scale) ==
    LET q == x.n \div x.d
        t == (x.n % x.d) * scale
        f == t \div x.d
        r == t % x.d
        low == q * scale + f
    IN  IF 2 * r > x.d THEN low + 1
        ELSE IF 2 * r < x.d THEN low
        ELSE IF low % 2 = 0 THEN low ELSE low + 1

\* a column value or a dict entry: a number, None, or no such key
Num(n) == [tag |-> "num", v |-> n]
NoneValue == [tag |-> None, v |-> 0]
AbsentValue == [tag |-> Absent, v |-> 0]

\* row.get(key): None when the row has no such key
RowGet(row, key) ==
    IF key \in DOMAIN row /\ row[key].tag # Absent THEN row[key] ELSE NoneValue

\* row[key] raises KeyError when the row has no such key
HasKey(row, key) == key \in DOMAIN row /\ row[key].tag # Absent

\* value or 0
OrZero(value) == IF value.tag = "num" THEN value.v ELSE 0

RECURSIVE SumOf(_, _)
\* sum(f(row) for row in results), f given as a sequence of numbers
SumOf(numbers, i) == IF i = 0 THEN 0 ELSE numbers[i] + SumOf(numbers, i - 1)

Sum(numbers) == SumOf(numbers, Len(numbers))

Seqs(S, n) == UNION { [1..k -> S] : k \in 0..n }

(***************************************************************************)
(* demographics                                                            *)
(***************************************************************************)
PopulationValues == {AbsentValue, NoneValue, Num(0), Num(100), Num(300)}
AgeValues == {NoneValue, Num(20), Num(35)}

\* a row of fetch_population_data_query
PopulationRow(p, a) ==
    [Male_Population |-> p, Median_Age_Male |-> a,
     Female_Population |-> p, Median_Age_Female |-> a,
     Population_Count |-> p, Median_Age_Total |-> a,
     Population_Density_KM2 |-> Num(500)]

PopulationRows == { PopulationRow(p, a) : p \in PopulationValues, a \in AgeValues }

SexPreferences == {"male", "female", None}
TargetAges == {30}

PopulationColumn(sex) ==
    IF sex = "male" THEN "Male_Population"
    ELSE IF sex = "female" THEN "Female_Population"
    ELSE "Population_Count"

AgeColumn(sex) ==
    IF sex = "male" THEN "Median_Age_Male"
    ELSE IF sex = "female" THEN "Median_Age_Female"
    ELSE "Median_Age_Total"

NoDemographics ==
    [raised |-> "-", target_population |-> 0, weighted_median_age |-> 0,
     avg_density |-> 0, age_proximity_factor |-> 0, density_factor |-> 0]

\* the part of both functions after the sums: age_diff, the two factors that
\* are rational in the inputs, and the rounding of the returned fields
\* (population_factor and score go through math.log10 and are not computed)
DemographicsFields(target_population, weighted_median_age, avg_density, age) ==
    LET age_diff == RAbs(RSub(weighted_median_age, Rat(age, 1)))
        age_proximity_factor == RMax(Zero, RSub(One, RDiv(age_diff, Rat(30, 1))))
        density_factor == RMin(One, RDiv(avg_density, Rat(1000, 1)))
    IN  [raised |-> "-",
         target_population |-> target_population,
         weighted_median_age |-> Round(weighted_median_age, 100),
         avg_density |-> Round(avg_density, 100),
         age_proximity_factor |-> Round(age_proximity_factor, 10000),
         density_factor |-> Round(density_factor, 10000)]

\* routers/demographics/logic.py calculate_score_from_results: row[key] or 0,
\* "/ target_population" and "/ len(results)" without a guard
calculate_score_from_results(results, age, sex) ==
    LET pcol == PopulationColumn(sex)
        acol == AgeColumn(sex)
    IN  IF \E i \in DOMAIN results : \E k \in {pcol, acol} : ~HasKey(results[i], k)
        THEN [NoDemographics EXCEPT !.raised = "KeyError"]
        ELSE LET target_population == Sum([i \in DOMAIN results |-> OrZero(results[i][pcol])])
                 weighted == Sum([i \in DOMAIN results |->
                                    OrZero(results[i][acol]) * OrZero(results[i][pcol])])
                 density == Sum([i \in DOMAIN results |->
                                    OrZero(results[i]["Population_Density_KM2"])])
             IN  IF target_population = 0
                 THEN [NoDemographics EXCEPT !.raised = "ZeroDivisionError"]
                 ELSE IF \E i \in DOMAIN results : ~HasKey(results[i], "Population_Density_KM2")
                 THEN [NoDemographics EXCEPT !.raised = "KeyError"]
                 ELSE DemographicsFields(target_population,
                                         Rat(weighted, target_population),
                                         Rat(density, Len(results)),
                                         age)

\* scoring_algorithms/demographics.py calculate_score_from_demographics_results:
\* row.get(key) or 0, and both divisions guarded
calculate_score_from_demographics_results(results, age, sex) ==
    LET pcol == PopulationColumn(sex)
        acol == AgeColumn(sex)
        target_population == Sum([i \in DOMAIN results |->
                                    OrZero(RowGet(results[i], pcol))])
        weighted == Sum([i \in DOMAIN results |->
                           OrZero(RowGet(results[i], acol)) * OrZero(RowGet(results[i], pcol))])
        density == Sum([i \in DOMAIN results |->
                          OrZero(RowGet(results[i], "Population_Density_KM2"))])
    IN  DemographicsFields(target_population,
                           IF target_population > 0
                           THEN Rat(weighted, target_population) ELSE Zero,
                           IF Len(results) > 0 THEN Rat(density, Len(results)) ELSE Zero,
                           age)

(***************************************************************************)
(* income                                                                  *)
(***************************************************************************)
\* a row of fetch_income_data_query: the columns the SELECT names
IncomeRow(income, low, medium, high) ==
    [income |-> income, low_income_score |-> low,
     medium_income_score |-> medium, high_income_score |-> high]

IncomeRows ==
    { IncomeRow(i, l, m, h) : i \in {NoneValue, Num(5000)},
                              l \in {NoneValue, Num(40), Num(75)},
                              m \in {NoneValue, Num(50)},
                              h \in {NoneValue, Num(90)} }

IncomeLevels == {"low", "medium", "high"}

NoIncome ==
    [raised |-> "-", score |-> 0, areas_analyzed |-> 0, avg_income |-> 0,
     low_score |-> 0, medium_score |-> 0, high_score |-> 0]

\* [row[key] for row in results if row[key] is not None], and the same
\* with row.get(key) in the test
RECURSIVE NotNone(_, _)
NotNone(results, key) ==
    IF results = <<>> THEN <<>>
    ELSE LET value == RowGet(Head(results), key) IN
         (IF value.tag = "num" THEN <<value.v>> ELSE <<>>) \o NotNone(Tail(results), key)

\* sum(scores) / len(scores) if scores else 0
Mean(scores) == IF scores = <<>> THEN Zero ELSE Rat(Sum(scores), Len(scores))

\* the score column each entry point reads for a target level
ScoreColumn(ep, level) ==
    IF ep = "routers"
    THEN (IF level = "low" THEN "income_score_low"
          ELSE IF level = "medium" THEN "income_score_medium"
          ELSE "income_score_high")
    ELSE (IF level = "low" THEN "low_income_score"
          ELSE IF level = "medium" THEN "medium_income_score"
          ELSE "high_income_score")

\* calculate_score_from_income_results of either entry point: the routers
\* one indexes row[...] with its column names, the scoring_algorithms one
\* tests row.get(...) and indexes the columns of the query
calculate_score_from_income_results(ep, results, level) ==
    LET target == ScoreColumn(ep, level)
        low == ScoreColumn(ep, "low")
        medium == ScoreColumn(ep, "medium")
        high == ScoreColumn(ep, "high")
    IN  IF /\ ep = "routers"
           /\ \E i \in DOMAIN results : \E k \in {target, "income", low, medium, high} :
                    ~HasKey(results[i], k)
        THEN [NoIncome EXCEPT !.raised = "KeyError"]
        ELSE [raised |-> "-",
              score |-> Round(Mean(NotNone(results, target)), 100),
              areas_analyzed |-> Len(results),
              avg_income |-> Round(Mean(NotNone(results, "income")), 100),
              low_score |-> Round(Mean(NotNone(results, low)), 100),
              medium_score |-> Round(Mean(NotNone(results, medium)), 100),
              high_score |-> Round(Mean(NotNone(results, high)), 100)]

(***************************************************************************)
(* competition and complementary                                           *)
(***************************************************************************)
\* the value of the "types" key of a business record
TypesValues ==
    { [tag |-> Absent, items |-> <<>>],
      [tag |-> None, items |-> <<>>],
      [tag |-> "list", items |-> <<>>],
      [tag |-> "list", items |-> <<"cafe">>],
      [tag |-> "list", items |-> <<"gym", "cafe">>],
      [tag |-> "list", items |-> <<"bank">>] }

Business(t) == [types |-> t]

\* 10 businesses, 5 of one category and 5 of another
TenInTwoCategories ==
    [i \in 1..10 |-> Business([tag |-> "list",
                               items |-> IF i <= 5 THEN <<"cafe">> ELSE <<"gym">>])]

BusinessLists ==
    Seqs({ Business(t) : t \in TypesValues }, MaxRecords) \cup {TenInTwoCategories}

TargetNums == {0, 1, 2, 5}

\* a category key taken from the end of the types list
CategoryOfLast(business) ==
    IF business.types.tag = "list" /\ business.types.items # <<>>
    THEN business.types.items[Len(business.types.items)]
    ELSE "unknown"

\* business.get("types", ["unknown"])[0] if business.get("types") else "unknown"
CategoryOf(business) ==
    IF business.types.tag = "list" /\ business.types.items # <<>>
    THEN business.types.items[1]
    ELSE "unknown"

\* category_counts[category] = category_counts.get(category, 0) + 1, for
\* every business in turn
RECURSIVE CategoryCounts(_, _)
CategoryCounts(data, n) ==
    IF n = 0 THEN [k \in {} |-> 0]
    ELSE LET counts == CategoryCounts(data, n - 1)
             category == CategoryOf(data[n])
         IN  [k \in DOMAIN counts \cup {category} |->
                (IF k \in DOMAIN counts THEN counts[k] ELSE 0)
                + (IF k = category THEN 1 ELSE 0)]

NoScoreData ==
    [raised |-> "-", score |-> 0, total |-> 0, category_breakdown |-> [k \in {} |-> 0],
     density |-> 0, factors |-> <<>>]

\* one perfect score for both entry points
EmptyCompetitionScoreSame(ep) == Rat(100, 1)

\* the score the entry point returns for no competitors: 1.0 or 100.0
EmptyCompetitionScore(ep) == IF ep = "routers" THEN Rat(1, 1) ELSE Rat(100, 1)

\* calculate_score_from_competition_data
calculate_score_from_competition_data(ep, competition_data, target_num) ==
    LET total_competitors == Len(competition_data)
        category_counts == CategoryCounts(competition_data, total_competitors)
    IN  IF total_competitors = 0
        THEN [NoScoreData EXCEPT !.score = Round(EmptyCompetitionScore(ep), 10000),
                                 !.factors = <<10000, 10000>>]
        ELSE IF target_num = 0
        THEN [NoScoreData EXCEPT !.raised = "ZeroDivisionError"]
        ELSE LET competition_density == Rat(total_competitors, 1000)
                 competition_factor ==
                     RMax(Zero, RSub(One, RDiv(competition_density, Rat(10, 1))))
                 avg_per_category ==
                     IF DOMAIN category_counts # {}
                     THEN Rat(total_competitors, Cardinality(DOMAIN category_counts))
                     ELSE Zero
                 category_factor ==
                     RMax(Zero, RSub(One, RDiv(avg_per_category, Rat(target_num, 1))))
                 final_score ==
                     RMul(RAdd(RMul(competition_factor, Rat(7, 10)),
                               RMul(category_factor, Rat(3, 10))),
                          Rat(100, 1))
             IN  [raised |-> "-",
                  score |-> Round(final_score, 10000),
                  total |-> total_competitors,
                  category_breakdown |-> category_counts,
                  density |-> Round(competition_density, 10000),
                  factors |-> <<Round(competition_factor, 10000),
                                Round(category_factor, 10000)>>]

\* a balance factor without the cap at 1
BalanceFactorUncapped(total, categories, target_num) ==
    RDiv(Rat(total, categories), Rat(target_num, 1))

\* avg_per_category = total / target_categories
\* balance_factor = min(1.0, avg_per_category / target_num_per_category)
BalanceFactor(total, categories, target_num) ==
    RMin(One, RDiv(Rat(total, categories), Rat(target_num, 1)))

\* calculate_score_from_complementary_data (the two entry points agree)
calculate_score_from_complementary_data(complementary_data, target_num) ==
    LET total_complementary == Len(complementary_data)
        category_counts == CategoryCounts(complementary_data, total_complementary)
    IN  IF total_complementary = 0
        THEN [NoScoreData EXCEPT !.factors = <<0, 0, 0>>]
        ELSE IF target_num = 0
        THEN [NoScoreData EXCEPT !.raised = "ZeroDivisionError"]
        ELSE LET complementary_density == Rat(total_complementary, 1000)
                 density_factor == RMin(One, RDiv(complementary_density, Rat(5, 1)))
                 target_categories == Cardinality(DOMAIN category_counts)
                 coverage_factor == RMin(One, Rat(target_categories, 5))
                 balance_factor ==
                     IF target_categories > 0
                     THEN BalanceFactor(total_complementary, target_categories, target_num)
                     ELSE Zero
                 final_score ==
                     RMul(RAdd(RAdd(RMul(density_factor, Rat(4, 10)),
                                    RMul(coverage_factor, Rat(3, 10))),
                               RMul(balance_factor, Rat(3, 10))),
                          Rat(100, 1))
             IN  [raised |-> "-",
                  score |-> Round(final_score, 10000),
                  total |-> total_complementary,
                  category_breakdown |-> category_counts,
                  density |-> Round(complementary_density, 10000),
                  factors |-> <<Round(density_factor, 10000),
                                Round(coverage_factor, 10000),
                                Round(balance_factor, 10000)>>]

EntryPoints == {"routers", "scoring_algorithms"}
Calculators == {"demographics", "income", "competition", "complementary"}

\* the inputs a calculator does not read keep these values
NoRowInputs ==
    /\ rows = <<>>
    /\ target_age \in TargetAges
    /\ sex_preference = None
    /\ target_income_level = "low"

NoBusinessInputs ==
    /\ businesses = <<>>
    /\ target_num_per_category = 1

CalcInit ==
    /\ entry \in EntryPoints
    /\ calc_pc = "ready"
    /\ score_out = NoScoreData
    /\ \/ /\ calc = "demographics"
          /\ rows \in Seqs(PopulationRows, MaxRows)
          /\ target_age \in TargetAges
          /\ sex_preference \in SexPreferences
          /\ target_income_level = "low"
          /\ NoBusinessInputs
       \/ /\ calc = "income"
          /\ rows \in Seqs(IncomeRows, MaxRows)
          /\ target_income_level \in IncomeLevels
          /\ target_age \in TargetAges
          /\ sex_preference = None
          /\ NoBusinessInputs
       \/ /\ calc \in {"competition", "complementary"}
          /\ businesses \in BusinessLists
          /\ target_num_per_category \in TargetNums
          /\ NoRowInputs

CalcInputsUnchanged ==
    /\ UNCHANGED <<calc, entry, rows, businesses, target_age, sex_preference,
                   target_income_level, target_num_per_category>>
    /\ UNCHANGED <<traffic_vars, pool_vars, dispatch_vars, api_vars>>

\* calculate_demographics_score / calculate_demographics_score_from_db, after
\* the query has returned its rows
DemographicsScore ==
    /\ calc = "demographics"
    /\ calc_pc = "ready"
    /\ score_out' = IF entry = "routers"
                    THEN calculate_score_from_results(rows, target_age, sex_preference)
                    ELSE calculate_score_from_demographics_results(rows, target_age,
                                                                   sex_preference)
    /\ calc_pc' = "done"
    /\ CalcInputsUnchanged

\* calculate_income_score, after the query has returned its rows
IncomeScore ==
    /\ calc = "income"
    /\ calc_pc = "ready"
    /\ score_out' = calculate_score_from_income_results(entry, rows, target_income_level)
    /\ calc_pc' = "done"
    /\ CalcInputsUnchanged

\* calculate_competition_score, after the dataset call has returned
CompetitionScore ==
    /\ calc = "competition"
    /\ calc_pc = "ready"
    /\ score_out' = calculate_score_from_competition_data(entry, businesses,
                                                          target_num_per_category)
    /\ calc_pc' = "done"
    /\ CalcInputsUnchanged

\* calculate_complementary_score, after the dataset call has returned
ComplementaryScore ==
    /\ calc = "complementary"
    /\ calc_pc = "ready"
    /\ score_out' = calculate_score_from_complementary_data(businesses,
                                                            target_num_per_category)
    /\ calc_pc' = "done"
    /\ CalcInputsUnchanged

CalcNext ==
    \/ DemographicsScore
    \/ IncomeScore
    \/ CompetitionScore
    \/ ComplementaryScore

(***************************************************************************)
(* Calls to the external services.  A competition or complementary         *)
(* calculator logs in and fetches the dataset; a traffic calculator logs   *)
(* in, submits a job and polls its status.  Invocations run concurrently:  *)
(* every await is a point where another invocation can take a step.  The   *)
(* invocations of one run use one implementation and serve equal requests. *)
(***************************************************************************)
\* invocations that run at the same time
NumInvocations == 2
\* the ceiling poll_job_status runs with in this part of the model
ApiMaxAttempts == 2

Invocations == 1..NumInvocations
DatasetCalculators == {"competition", "complementary"}
ApiCalculators == DatasetCalculators \cup {"traffic"}

\* the fields of a request the calls read
ApiRequests ==
    { [lat |-> 24, lng |-> 46, radius |-> 500, categories |-> <<"cafe">>,
       target_num_per_category |-> 2],
      [lat |-> 25, lng |-> 47, radius |-> 1000, categories |-> <<"cafe", "bakery">>,
       target_num_per_category |-> 2] }

\* sep.join(parts)
RECURSIVE Join(_, _)
Join(sep, parts) ==
    IF parts = <<>> THEN ""
    ELSE IF Len(parts) = 1 THEN parts[1]
    ELSE parts[1] \o sep \o Join(sep, Tail(parts))

\* a call that sends no query
NoBody ==
    [lat |-> AbsentValue, lng |-> AbsentValue, boolean_query |-> Absent,
     action |-> Absent, search_type |-> Absent, radius |-> AbsentValue]

\* request_body of the dataset fetch: routers/competition builds it without
\* the radius, the scoring_algorithms modules without search_type
RequestBody(c, i, r) ==
    [lat |-> Num(r.lat),
     lng |-> Num(r.lng),
     boolean_query |-> Join(" OR ", r.categories),
     action |-> "sample",
     search_type |-> IF i = "routers" THEN "category_search" ELSE Absent,
     radius |-> IF i = "routers" /\ c = "competition" THEN AbsentValue
                ELSE Num(r.radius)]

\* payload of the job submission: the location of the request
Payload(r) == [NoBody EXCEPT !.lat = Num(r.lat), !.lng = Num(r.lng)]

\* the JSON document a dataset fetch is answered with: data is missing,
\* null or a dict; features is missing, null, a number, a string or a list
NoData == [data |-> Absent, features |-> Absent, items |-> <<>>]

FetchedLists == { <<>>, <<Business([tag |-> "list", items |-> <<"cafe">>])>> }

FetchBodies ==
    { NoData, [NoData EXCEPT !.data = None] }
    \cup { [data |-> "dict", features |-> f, items |-> <<>>] :
             f \in {Absent, None, "num", "str"} }
    \cup { [data |-> "dict", features |-> "list", items |-> l] : l \in FetchedLists }

\* businesses = data.get("data", {}).get("features", [])
Features(data) ==
    IF data.data = None
    THEN [raised |-> "AttributeError", tag |-> None, items |-> <<>>]
    ELSE IF data.data = Absent \/ data.features = Absent
    THEN [raised |-> "-", tag |-> "list", items |-> <<>>]
    ELSE [raised |-> "-", tag |-> data.features, items |-> data.items]

\* calculate_score_from_*_data applied to what the fetch returned: len() of
\* None or of a number is a TypeError, an element of a string has no get
ScoreFetched(c, i, fetched, target_num) ==
    IF fetched.tag \in {None, "num"}
    THEN [NoScoreData EXCEPT !.raised = "TypeError"]
    ELSE IF fetched.tag = "str"
    THEN [NoScoreData EXCEPT !.raised = "AttributeError"]
    ELSE IF c = "competition"
    THEN calculate_score_from_competition_data(i, fetched.items, target_num)
    ELSE calculate_score_from_complementary_data(fetched.items, target_num)

\* the statuses a status poll is answered with in this part of the model
ApiStatuses == {"done", "failed", "pending"}

Call(name, token, s, body) ==
    [call |-> name, token |-> token, session |-> s, body |-> body,
     http |-> "sent", response |-> NoData, status |-> ""]

\* no session is open
NoSession == <<0, 0>>

\* aiohttp.ClientSession(): a new object, named by the invocation that
\* constructs it and the number of the call it is constructed for
NewSession(i) == <<i, Len(http_calls[i]) + 1>>

\* no token is attached
NoToken == <<0, 0>>

\* the token a login is answered with, named by the login call it answers
NewToken(i) == <<i, Len(http_calls[i])>>

\* one token kept for every invocation alike: the first one obtained
AttachedTokenShared(i) ==
    IF tokens_issued = {} THEN NoToken
    ELSE CHOOSE t \in tokens_issued : \A u \in tokens_issued : t[1] <= u[1]

\* headers = {"Authorization": f"Bearer {auth_token}"}
AttachedToken(i) == auth_token[i]

ApiInit ==
    /\ inv_calc \in [Invocations -> ApiCalculators]
    /\ \E m \in Impls : inv_impl = [i \in Invocations |-> m]
    /\ \E r \in ApiRequests : inv_req = [i \in Invocations |-> r]
    /\ inv_pc = [i \in Invocations |-> "start"]
    /\ auth_token = [i \in Invocations |-> NoToken]
    /\ session = [i \in Invocations |-> NoSession]
    /\ http_calls = [i \in Invocations |-> <<>>]
    /\ api_attempt = [i \in Invocations |-> 0]
    /\ api_out = [i \in Invocations |-> NoScoreData]
    /\ tokens_issued = {}
    /\ sessions_opened = {}
    /\ sessions_closed = {}

OtherPartsUnchanged == UNCHANGED <<traffic_vars, pool_vars, dispatch_vars, calc_vars>>

\* async with aiohttp.ClientSession() as session: session.post/get(...)
Send(i, name, token, body, pc_after) ==
    /\ sessions_opened' = sessions_opened \cup {NewSession(i)}
    /\ session' = [session EXCEPT ![i] = NewSession(i)]
    /\ http_calls' = [http_calls EXCEPT
           ![i] = Append(@, Call(name, token, NewSession(i), body))]
    /\ inv_pc' = [inv_pc EXCEPT ![i] = pc_after]
    /\ UNCHANGED <<inv_calc, inv_impl, inv_req, auth_token, api_out, tokens_issued,
                   sessions_closed>>
    /\ OtherPartsUnchanged

\* the session context is left
CloseSession(i) ==
    /\ sessions_closed' = sessions_closed \cup {session[i]}
    /\ session' = [session EXCEPT ![i] = NoSession]

\* the response of the call in flight is recorded
Answer(i, http, response, status) ==
    http_calls' = [http_calls EXCEPT
        ![i][Len(http_calls[i])] =
            [@ EXCEPT !.http = http, !.response = response, !.status = status]]

\* a response that is not 2xx is answered by sending the request again
RetryOnError(i) ==
    /\ Answer(i, "error", NoData, "")
    /\ CloseSession(i)
    /\ inv_pc' = [inv_pc EXCEPT ![i] = IF @ = "login" THEN "start"
                                       ELSE IF @ = "poll" THEN "loop"
                                       ELSE "logged_in"]
    /\ UNCHANGED <<inv_calc, inv_impl, inv_req, auth_token, api_attempt, api_out,
                   tokens_issued, sessions_opened>>
    /\ OtherPartsUnchanged

\* response.raise_for_status() on a response that is not 2xx
RaiseForStatus(i) ==
    /\ Answer(i, "error", NoData, "")
    /\ CloseSession(i)
    /\ inv_pc' = [inv_pc EXCEPT ![i] = "failed"]
    /\ api_out' = [api_out EXCEPT ![i] = [NoScoreData EXCEPT !.raised = "ClientResponseError"]]
    /\ UNCHANGED <<inv_calc, inv_impl, inv_req, auth_token, api_attempt, tokens_issued,
                   sessions_opened>>
    /\ OtherPartsUnchanged

\* login_to_external_api / login_to_traffic_api: the request
Login(i) ==
    /\ inv_pc[i] = "start"
    /\ Send(i, "login", NoToken, NoBody, "login")
    /\ UNCHANGED api_attempt

\* the login is answered with a token
LoginDone(i) ==
    /\ inv_pc[i] = "login"
    /\ Answer(i, "ok", NoData, "")
    /\ CloseSession(i)
    /\ tokens_issued' = tokens_issued \cup {NewToken(i)}
    /\ auth_token' = [auth_token EXCEPT ![i] = NewToken(i)]
    /\ inv_pc' = [inv_pc EXCEPT ![i] = "logged_in"]
    /\ UNCHANGED <<inv_calc, inv_impl, inv_req, api_attempt, api_out, sessions_opened>>
    /\ OtherPartsUnchanged

LoginFail(i) ==
    /\ inv_pc[i] = "login"
    /\ RaiseForStatus(i)

\* fetch_competition_data_from_external_api and its three siblings: the request
Fetch(i) ==
    /\ inv_pc[i] = "logged_in"
    /\ inv_calc[i] \in DatasetCalculators
    /\ Send(i, "fetch", AttachedToken(i),
            RequestBody(inv_calc[i], inv_impl[i], inv_req[i]), "fetch")
    /\ UNCHANGED api_attempt

\* the dataset arrives and calculate_score_from_*_data runs on it
FetchDone(i) ==
    /\ inv_pc[i] = "fetch"
    /\ \E data \in FetchBodies :
         LET fetched == Features(data)
             scored == IF fetched.raised # "-"
                           THEN [NoScoreData EXCEPT !.raised = fetched.raised]
                           ELSE ScoreFetched(inv_calc[i], inv_impl[i], fetched,
                                             inv_req[i].target_num_per_category)
         IN  /\ Answer(i, "ok", data, "")
             /\ api_out' = [api_out EXCEPT ![i] = scored]
             /\ inv_pc' = [inv_pc EXCEPT
                    ![i] = IF scored.raised = "-" THEN "done" ELSE "failed"]
    /\ CloseSession(i)
    /\ UNCHANGED <<inv_calc, inv_impl, inv_req, auth_token, api_attempt, tokens_issued,
                   sessions_opened>>
    /\ OtherPartsUnchanged

FetchFail(i) ==
    /\ inv_pc[i] = "fetch"
    /\ RaiseForStatus(i)

\* submit_traffic_job: the request
Submit(i) ==
    /\ inv_pc[i] = "logged_in"
    /\ inv_calc[i] = "traffic"
    /\ Send(i, "submit", AttachedToken(i), Payload(inv_req[i]), "submit")
    /\ UNCHANGED api_attempt

\* the job id arrives
SubmitDone(i) ==
    /\ inv_pc[i] = "submit"
    /\ Answer(i, "ok", NoData, "")
    /\ CloseSession(i)
    /\ inv_pc' = [inv_pc EXCEPT ![i] = "loop"]
    /\ UNCHANGED <<inv_calc, inv_impl, inv_req, auth_token, api_attempt, api_out,
                   tokens_issued, sessions_opened>>
    /\ OtherPartsUnchanged

SubmitFail(i) ==
    /\ inv_pc[i] = "submit"
    /\ RaiseForStatus(i)

\* poll_job_status: while attempt < max_attempts: attempt += 1, the request
Poll(i) ==
    /\ inv_pc[i] = "loop"
    /\ api_attempt[i] < ApiMaxAttempts
    /\ api_attempt' = [api_attempt EXCEPT ![i] = @ + 1]
    /\ Send(i, "poll", AttachedToken(i), NoBody, "poll")

\* the loop ends without a terminal status
PollTimedOut(i) ==
    /\ inv_pc[i] = "loop"
    /\ api_attempt[i] >= ApiMaxAttempts
    /\ inv_pc' = [inv_pc EXCEPT ![i] = "failed"]
    /\ api_out' = [api_out EXCEPT ![i] = [NoScoreData EXCEPT !.raised = "Exception"]]
    /\ UNCHANGED <<inv_calc, inv_impl, inv_req, auth_token, session, http_calls,
                   api_attempt, tokens_issued, sessions_opened, sessions_closed>>
    /\ OtherPartsUnchanged

\* the status arrives: done returns, failed raises, any other status sleeps
\* inside the session context
PollDone(i) ==
    /\ inv_pc[i] = "poll"
    /\ \E status \in ApiStatuses :
         /\ Answer(i, "ok", NoData, status)
         /\ IF status = "pending"
            THEN /\ inv_pc' = [inv_pc EXCEPT ![i] = "sleep"]
                 /\ UNCHANGED <<session, sessions_closed, api_out>>
            ELSE /\ CloseSession(i)
                 /\ inv_pc' = [inv_pc EXCEPT
                        ![i] = IF status = "done" THEN "done" ELSE "failed"]
                 /\ api_out' = [api_out EXCEPT
                        ![i] = IF status = "done" THEN @
                               ELSE [NoScoreData EXCEPT !.raised = "Exception"]]
    /\ UNCHANGED <<inv_calc, inv_impl, inv_req, auth_token, api_attempt, tokens_issued,
                   sessions_opened>>
    /\ OtherPartsUnchanged

PollFail(i) ==
    /\ inv_pc[i] = "poll"
    /\ RaiseForStatus(i)

\* asyncio.sleep returns and the session context of the poll is left
PollSleepDone(i) ==
    /\ inv_pc[i] = "sleep"
    /\ CloseSession(i)
    /\ inv_pc' = [inv_pc EXCEPT ![i] = "loop"]
    /\ UNCHANGED <<inv_calc, inv_impl, inv_req, auth_token, http_calls, api_attempt,
                   api_out, tokens_issued, sessions_opened>>
    /\ OtherPartsUnchanged

ApiNext ==
    \E i \in Invocations :
        \/ Login(i)
        \/ LoginDone(i)
        \/ LoginFail(i)
        \/ Fetch(i)
        \/ FetchDone(i)
        \/ FetchFail(i)
        \/ Submit(i)
        \/ SubmitDone(i)
        \/ SubmitFail(i)
        \/ Poll(i)
        \/ PollTimedOut(i)
        \/ PollDone(i)
        \/ PollFail(i)
        \/ PollSleepDone(i)

(***************************************************************************)
(* Specifications: the traffic calculation, the pool, request_handling and *)
(* the calculators, each on its own; the parts that are not exercised stay *)
(* in their initial state.                                                 *)
(***************************************************************************)
TrafficAtRest ==
    /\ impl = "routers"
    /\ ceiling = DefaultMaxAttempts
    /\ max_attempts = MaxAttemptsOf(impl, ceiling)
    /\ attempt = 0
    /\ poll_pc = "loop"
    /\ job_data = NoResponse
    /\ raised = NoException
    /\ score_data = NoScore
    /\ requests = 0
    /\ sleeps = 0
    /\ served = 0
    /\ statuses = {}
    /\ last_served = NoResponse

PoolAtRest ==
    /\ su_pc = "idle"
    /\ PoolInit

DispatchAtRest ==
    /\ input_type = None
    /\ output_type = None
    /\ wrap_output = FALSE
    /\ DispatchInit
    /\ req.tag = None
    /\ custom_function.tag = None

CalcAtRest ==
    /\ entry = "routers"
    /\ calc = "competition"
    /\ businesses = <<>>
    /\ target_num_per_category = 1
    /\ CalcInit

ApiAtRest ==
    /\ inv_calc = [i \in Invocations |-> "competition"]
    /\ inv_impl = [i \in Invocations |-> "routers"]
    /\ \E r \in ApiRequests : r.radius = 500 /\ inv_req = [i \in Invocations |-> r]
    /\ ApiInit

Init == TrafficInit /\ PoolAtRest /\ DispatchAtRest /\ CalcAtRest /\ ApiAtRest
Next == TrafficNext
Spec == Init /\ [][Next]_vars

InitPool == TrafficAtRest /\ PoolInit /\ DispatchAtRest /\ CalcAtRest /\ ApiAtRest
SpecPool == InitPool /\ [][PoolNext]_vars

InitDispatch == TrafficAtRest /\ PoolAtRest /\ DispatchInit /\ CalcAtRest /\ ApiAtRest
SpecDispatch == InitDispatch /\ [][DispatchNext]_vars

\* a job that is done with one result item that reports no error and carries
\* three scores, each at or next to a tier boundary
BoundaryScores == {0, 19, 20, 39, 40, 59, 60, 69, 70, 79, 80, 100}

ScoredItems ==
    { [error |-> e, score |-> s, storefront_score |-> f, area_score |-> a] :
        e \in {Absent, None, ""},
        s \in BoundaryScores, f \in BoundaryScores, a \in BoundaryScores }

ScoredResponses ==
    { [http |-> "ok", status |-> "done", error |-> Absent,
       result |-> [tag |-> "dict", results |-> [tag |-> "list", items |-> <<i>>]]] :
        i \in ScoredItems }

\* poll_job_status has returned the payload of its first status request
InitFormat ==
    /\ impl \in Impls
    /\ ceiling = DefaultMaxAttempts
    /\ max_attempts = MaxAttemptsOf(impl, ceiling)
    /\ attempt = 1
    /\ poll_pc = "returned"
    /\ job_data \in ScoredResponses
    /\ raised = NoException
    /\ score_data = NoScore
    /\ requests = 1
    /\ sleeps = 0
    /\ served = 1
    /\ statuses = {"done"}
    /\ last_served = job_data
    /\ PoolAtRest /\ DispatchAtRest /\ CalcAtRest /\ ApiAtRest
SpecFormat == InitFormat /\ [][FormatResults]_vars

InitCalc == TrafficAtRest /\ PoolAtRest /\ DispatchAtRest /\ CalcInit /\ ApiAtRest
SpecCalc == InitCalc /\ [][CalcNext]_vars

InitApi == TrafficAtRest /\ PoolAtRest /\ DispatchAtRest /\ CalcAtRest /\ ApiInit
SpecApi == InitApi /\ [][ApiNext]_vars

(***************************************************************************)
(* Properties of the polling loop.                                         *)
(***************************************************************************)
Polling == poll_pc \in {"loop", "awaiting", "sleeping"}
Returned == poll_pc \in {"returned", "formatted"} \/ raised.type = "AttributeError"
NotCancelled == raised.type # "cancelled"

\* C1: with the default ceiling, when the service answers "running" to the
\* first N < 60 polls and "done" to the next one, the loop keeps polling until
\* the "done" answer, has then issued exactly N+1 requests (N+1 = the number
\* of answers the service sent) and returns the body of the last answer.
Thm_C1 ==
    (max_attempts = DefaultMaxAttempts /\ statuses \subseteq {"running", "done"}
        /\ NotCancelled)
    => IF "done" \in statuses
       THEN Returned /\ requests = served /\ job_data = last_served
            /\ job_data.status = "done"
       ELSE served < DefaultMaxAttempts
            => (Polling /\ requests \in {served, served + 1})

Wit_C1 ==
    /\ max_attempts = DefaultMaxAttempts
    /\ statuses = {"running", "done"}
    /\ poll_pc = "returned"
    /\ requests = DefaultMaxAttempts

\* C2: with the default ceiling, when the service answers "pending" to every
\* poll, the loop never returns, issues at most 60 requests, and has issued
\* exactly 60 requests when it fails, which it does with the timeout error.
Thm_C2 ==
    (max_attempts = DefaultMaxAttempts /\ statuses \subseteq {"pending"}
        /\ NotCancelled)
    => /\ requests <= 60
       /\ ~Returned
       /\ poll_pc = "failed" => (raised.type = "timeout" /\ requests = 60 /\ served = 60)
       /\ (served = 60 /\ poll_pc = "loop") => ENABLED PollTimeout

Wit_C2 ==
    /\ max_attempts = DefaultMaxAttempts
    /\ statuses = {"pending"}
    /\ poll_pc = "failed"
    /\ raised.type = "timeout"
    /\ requests = 60

CE_C4 ==
    /\ requests <= ceiling
    /\ raised.type = "timeout"
       => (served = ceiling /\ statuses \cap ({"done"} \cup FailedStatuses) = {})

\* C5: after the coroutine was cancelled at an await point of the loop, no
\* step issues a status request and the coroutine stays ended.
Thm_C5 ==
    [][raised.type = "cancelled"
        => (requests' = requests /\ poll_pc' = "cancelled" /\ attempt' = attempt
            /\ sleeps' = sleeps)]_vars

Wit_C5 ==
    /\ poll_pc = "cancelled"
    /\ requests = 2
    /\ sleeps = 2

\* C6 (as claimed): formatting a payload without a results list, with an
\* empty one, or whose first result reports an error never raises and gives
\* three zero scores with an explanation (the error text in the last case).
NoResultsList(job_result) ==
    \/ job_result.result.tag \in {Absent, None}
    \/ job_result.result.results.tag \in {Absent, None}
    \/ job_result.result.results.items = <<>>

FirstHasError(job_result) ==
    /\ ~NoResultsList(job_result)
    /\ Truthy(job_result.result.results.items[1].error)

Formatted == poll_pc = "formatted" \/ raised.type = "AttributeError"

CE_C6 ==
    (Formatted /\ (NoResultsList(job_data) \/ FirstHasError(job_data)))
    => /\ raised.type # "AttributeError"
       /\ score_data.tag = "value"
       /\ score_data.score = 0
       /\ score_data.storefront_score = 0
       /\ score_data.area_score = 0
       /\ score_data.explanation # ""
       /\ FirstHasError(job_data)
          => score_data.detail = job_data.result.results.items[1].error

(***************************************************************************)
(* Properties of the connection pool.                                      *)
(***************************************************************************)
RefreshStates == {"refresh_creating", "refresh_closing"}
LivePools == {p \in PoolIds : pstate[p] \in {"open", "closing"}}

\* C7: while a task is inside refresh_pool the shared reference is never
\* absent and points to an open pool; once that refresh is closing its old
\* pool, the reference points to another pool than the one it closes.
Thm_C7 ==
    \A t \in Tasks :
        pc[t] \in RefreshStates
        => /\ pool # NoPool
           /\ pstate[pool] = "open"
           /\ pc[t] = "refresh_closing" => pool # old_pool[t]

Wit_C7 ==
    \E t \in Tasks :
        /\ pc[t] = "refresh_closing"
        /\ pstate[old_pool[t]] = "closing"
        /\ pool # old_pool[t]
        /\ \E u \in Tasks : conn[u] = old_pool[t]

\* C8 (as claimed): an expired pool is replaced by exactly one
\* create-then-close cycle, also when acquires overlap: no pool has more than
\* one new pool created, and more than one close started, to replace it.
CE_C8 == \A p \in PoolIds : cycles[p] <= 1

\* C9: every acquire is made on a pool that is open at that moment: no task
\* has acquired from a closing or closed pool or from an absent reference,
\* and a connection in use belongs to a pool that is not closed.
Thm_C9 ==
    \A t \in Tasks :
        /\ acquired[t] \in {"-", "open"}
        /\ pc[t] = "using" => (acquired[t] = "open" /\ pstate[conn[t]] \in {"open", "closing"})

Wit_C9 ==
    \E t, u \in Tasks :
        /\ t # u
        /\ pc[t] = "using"
        /\ acquired[t] = "open"
        /\ conn[t] = pool
        /\ pc[u] = "refresh_closing"
        /\ \E p \in PoolIds : cycles[p] = 2

\* C10 (as claimed): whenever no refresh is in progress, at most one pool is
\* created and not closed, and it is the one the shared reference points to.
CE_C10 ==
    (\A t \in Tasks : pc[t] \notin RefreshStates)
    => (Cardinality(LivePools) <= 1 /\ LivePools \subseteq {pool})
\* C11: when the creation of a pool fails during an acquire, lazy or on a
\* refresh, the step leaves the shared pool reference, its creation time and
\* the state of every pool as they were (the old pool stays installed and
\* open), the task holds no connection and does not try again, and the caller
\* of a query receives the creation error itself.
Thm_C11 ==
    [][\A t \in Tasks :
        (pc[t] \in {"creating", "refresh_creating"} /\ event'[t] = "create_failed")
        => /\ pool' = pool
           /\ last_refresh_time' = last_refresh_time
           /\ pstate' = pstate
           /\ npools' = npools
           /\ pc'[t] = "idle"
           /\ conn'[t] = NoPool
           /\ (OpOf(t) = "fetch" => returned'[t] = "create_failed")]_vars

Wit_C11 ==
    \E t \in Tasks :
        /\ OpOf(t) = "fetch"
        /\ pc[t] = "idle"
        /\ returned[t] = "create_failed"
        /\ pool # NoPool
        /\ pstate[pool] = "open"
        /\ Expired(now, last_refresh_time)

\* C12: health_check returns True when the statement has run and False when
\* the creation of the pool, the acquire or the statement has failed; no
\* exception of these reaches its caller.
Thm_C12 ==
    \A t \in Tasks :
        OpOf(t) = "health_check"
        => /\ event[t] # "cancelled" => returned[t] \in {"-", "True", "False"}
           /\ event[t] = "executed" => returned[t] = "True"
           /\ event[t] \in Failures => returned[t] = "False"
           /\ event[t] = "-" => returned[t] = "-"

Wit_C12 ==
    \E t \in Tasks :
        /\ OpOf(t) = "health_check"
        /\ event[t] = "create_failed"
        /\ returned[t] = "False"
        /\ pool = NoPool

\* C13 (as claimed): whenever an input schema is given and the input dict
\* violates it, request_handling raises the 422 error that lists every
\* violated field and the domain function is not called.
CE_C13 ==
    (input_type # None /\ req.tag = "dict" /\ model_validate(req) # {} /\ rh_pc # "start")
    => /\ rh_raised = ValidationFailed(model_validate(req))
       /\ invoked = 0

\* C14: an exception of the domain function that is not an HTTPException
\* leaves request_handling as one HTTPException 500 whose detail carries the
\* original message; an HTTPException of the domain function leaves it with
\* the same status code and detail; in both cases nothing is returned, no
\* envelope is built and no coercion is run.
Thm_C14 ==
    LET e == CallResult(custom_function, ReqTruthy(req)).raised IN
    (rh_pc = "done" /\ invoked = 1 /\ e # NothingRaised)
    => /\ e.type = "HTTPException" => rh_raised = e
       /\ e.type # "HTTPException"
            => /\ rh_raised.type = "HTTPException"
               /\ rh_raised.status_code = 500
               /\ rh_raised.detail.prefix = "An unexpected error occurred: "
               /\ rh_raised.detail.message = e.detail.message
       /\ rh_returned = NoValue
       /\ output = DefaultOutput
       /\ rh_error = "-"

Wit_C14 ==
    /\ rh_pc = "done"
    /\ invoked = 1
    /\ custom_function.does = "raises_http"
    /\ rh_raised = DomainHttpError
    /\ wrap_output
    /\ output_type = "ResModel"
    /\ calls = 2

\* C15 (as claimed): with wrap_output set, a call whose domain function has
\* returned gives back the envelope, with the request id drawn in that call.
CE_C15 ==
    (wrap_output /\ rh_pc = "done" /\ invoked = 1 /\ rh_raised = NothingRaised)
    => /\ rh_error = "-"
       /\ rh_returned.shape = "envelope"
       /\ rh_returned.request_id \in 1..MaxUuid

\* C16 (as claimed): on an empty row or record sequence every calculator
\* returns its no-data result without raising: demographics a weighted age
\* of 0, income score 0 and distribution 0.0, competition the perfect score
\* (100, or 1.0 in the routers entry point), complementary score 0.
CE_C16 ==
    (calc_pc = "done" /\ rows = <<>> /\ businesses = <<>>)
    => /\ score_out.raised = "-"
       /\ calc = "demographics" => score_out.weighted_median_age = 0
       /\ calc = "income" => /\ score_out.score = 0
                             /\ score_out.low_score = 0
                             /\ score_out.medium_score = 0
                             /\ score_out.high_score = 0
       /\ calc = "competition" => score_out.score \in {10000, 1000000}
       /\ calc = "complementary" => score_out.score = 0

MaleSum(rs) == Sum([i \in DOMAIN rs |-> OrZero(rs[i].Male_Population)])

MaleWeighted(rs) ==
    Sum([i \in DOMAIN rs |-> OrZero(rs[i].Median_Age_Male) * OrZero(rs[i].Male_Population)])

\* C17 (as claimed): with sex_preference "male" and rows that carry the male
\* columns, weighted_median_age is sum(Median_Age_Male * Male_Population) /
\* sum(Male_Population) rounded to 2 decimals, and 0, without a division by
\* zero, when the male population sum is 0.
CE_C17 ==
    (/\ calc = "demographics"
     /\ calc_pc = "done"
     /\ sex_preference = "male"
     /\ rows # <<>>
     /\ \A i \in DOMAIN rows : rows[i].Male_Population.tag # Absent)
    => /\ score_out.raised = "-"
       /\ score_out.weighted_median_age =
            IF MaleSum(rows) = 0 THEN 0
            ELSE Round(Rat(MaleWeighted(rows), MaleSum(rows)), 100)

\* the first element of the types list, or "unknown"
FirstTypes(bs) ==
    { IF bs[i].types.tag = "list" /\ bs[i].types.items # <<>>
      THEN Head(bs[i].types.items) ELSE "unknown" : i \in DOMAIN bs }

\* (0.7 * max(0, 1 - (count/1000)/10) + 0.3 * max(0, 1 - (count/n)/target)) * 100
\* rounded to 4 decimals
CompetitionFormula(count, n, target) ==
    Round(RMul(RAdd(RMul(Rat(7, 10), RMax(Zero, RSub(One, Rat(count, 10000)))),
                    RMul(Rat(3, 10), RMax(Zero, RSub(One, Rat(count, n * target))))),
               Rat(100, 1)),
          10000)

\* C18: for a non-empty competitor list and a positive target the competition
\* score is the weighted formula over the count and the number of distinct
\* category keys, rounded to 4 decimals; 10 competitors in 2 categories with
\* target 5 score 69.93.
Thm_C18 ==
    (/\ calc = "competition"
     /\ calc_pc = "done"
     /\ businesses # <<>>
     /\ target_num_per_category > 0)
    => /\ score_out.raised = "-"
       /\ score_out.score = CompetitionFormula(Len(businesses),
                                               Cardinality(FirstTypes(businesses)),
                                               target_num_per_category)
       /\ (businesses = TenInTwoCategories /\ target_num_per_category = 5)
            => score_out.score = 699300

Wit_C18 ==
    /\ calc = "competition"
    /\ calc_pc = "done"
    /\ businesses = TenInTwoCategories
    /\ target_num_per_category = 5
    /\ score_out.score = 699300

\* (0.4 * min(1, (count/1000)/5) + 0.3 * min(1, n/5) + 0.3 * min(1, (count/n)/target)) * 100
\* rounded to 4 decimals
ComplementaryFormula(count, n, target) ==
    Round(RMul(RAdd(RAdd(RMul(Rat(4, 10), RMin(One, Rat(count, 5000))),
                         RMul(Rat(3, 10), RMin(One, Rat(n, 5)))),
                    RMul(Rat(3, 10), RMin(One, Rat(count, n * target)))),
               Rat(100, 1)),
          10000)

\* C19: for a non-empty record list and a positive target the complementary
\* score is the weighted formula over the count and the number of distinct
\* categories, rounded to 4 decimals; for an empty list the score and the
\* three factors are 0.
Thm_C19 ==
    (calc = "complementary" /\ calc_pc = "done")
    => /\ (businesses # <<>> /\ target_num_per_category > 0)
            => /\ score_out.raised = "-"
               /\ score_out.score =
                    ComplementaryFormula(Len(businesses),
                                         Cardinality(FirstTypes(businesses)),
                                         target_num_per_category)
       /\ businesses = <<>>
            => /\ score_out.raised = "-"
               /\ score_out.score = 0
               /\ score_out.factors = <<0, 0, 0>>

Wit_C19 ==
    /\ calc = "complementary"
    /\ calc_pc = "done"
    /\ Len(businesses) = 3
    /\ Cardinality(FirstTypes(businesses)) = 2
    /\ target_num_per_category = 1
    /\ score_out.factors[3] = 10000

\* the column of the query that holds the pre-computed score of a tier
TierColumn(level) ==
    IF level = "low" THEN "low_income_score"
    ELSE IF level = "medium" THEN "medium_income_score"
    ELSE "high_income_score"

\* C20 (as claimed): for every row sequence of the income query and every
\* target tier the income calculator returns, without raising, the mean of
\* the non-null values of the tier's score column rounded to 2 decimals.
CE_C20 ==
    (calc = "income" /\ calc_pc = "done")
    => /\ score_out.raised = "-"
       /\ score_out.score = Round(Mean(NotNone(rows, TierColumn(target_income_level))), 100)
\* C21: for a job result whose first item reports no error the three scores
\* are returned as received, and the labels follow inclusive lower bounds:
\* overall 80/60/40/20, storefront and area 70/40.
Thm_C21 ==
    (poll_pc = "formatted" /\ ~NoResultsList(job_data) /\ ~FirstHasError(job_data))
    => LET item == job_data.result.results.items[1] IN
       /\ score_data.score = item.score
       /\ score_data.storefront_score = item.storefront_score
       /\ score_data.area_score = item.area_score
       /\ score_data.score_quality = "excellent" <=> item.score >= 80
       /\ score_data.score_quality = "good" <=> (item.score >= 60 /\ item.score < 80)
       /\ score_data.score_quality = "moderate" <=> (item.score >= 40 /\ item.score < 60)
       /\ score_data.score_quality = "below average" <=> (item.score >= 20 /\ item.score < 40)
       /\ score_data.score_quality = "poor" <=> item.score < 20
       /\ score_data.storefront_quality = "high" <=> item.storefront_score >= 70
       /\ score_data.storefront_quality = "moderate"
            <=> (item.storefront_score >= 40 /\ item.storefront_score < 70)
       /\ score_data.storefront_quality = "low" <=> item.storefront_score < 40
       /\ score_data.area_quality = "busy" <=> item.area_score >= 70
       /\ score_data.area_quality = "moderate" <=> (item.area_score >= 40 /\ item.area_score < 70)
       /\ score_data.area_quality = "quiet" <=> item.area_score < 40

Wit_C21 ==
    /\ poll_pc = "formatted"
    /\ job_data.result.results.items[1].score = 80
    /\ job_data.result.results.items[1].storefront_score = 70
    /\ job_data.result.results.items[1].area_score = 39
    /\ score_data.score_quality = "excellent"
    /\ score_data.storefront_quality = "high"
    /\ score_data.area_quality = "quiet"

(***************************************************************************)
(* Properties of the calls to the external services.                       *)
(***************************************************************************)
\* the call an invocation made last
LastCall(i) == http_calls[i][Len(http_calls[i])]

\* the invocation has ended after its dataset fetch was answered
FetchAnswered(i) ==
    /\ inv_pc[i] \in {"done", "failed"}
    /\ http_calls[i] # <<>>
    /\ LastCall(i).call = "fetch"
    /\ LastCall(i).http = "ok"

\* data missing or null, features missing, null or not a list
Malformed(data) ==
    \/ data.data \in {Absent, None}
    \/ data.features \in {Absent, None, "num", "str"}

\* C22 (as claimed): when the dataset response has no data.features entry or
\* a malformed one (data absent or null, features absent, null or not a
\* list), the fetch yields an empty sequence and the calculator returns its
\* no-data result without raising.
CE_C22 ==
    \A i \in Invocations :
        (FetchAnswered(i) /\ Malformed(LastCall(i).response))
        => /\ inv_pc[i] = "done"
           /\ api_out[i].raised = "-"
           /\ api_out[i].total = 0

\* C23: every invocation logs in exactly once, before its first authenticated
\* call, and attaches only the token of that login to its later calls; no
\* call carries a token that the login of another invocation obtained, also
\* when invocations interleave; every call has a session of its own, and a
\* session is open only while its call (and, in the polling loop, the sleep
\* that follows it) is under way.
Thm_C23 ==
    \A i \in Invocations :
        /\ \A k \in DOMAIN http_calls[i] :
              LET c == http_calls[i][k] IN
              /\ (c.call = "login") <=> (k = 1)
              /\ k = 1 => c.token = NoToken
              /\ k > 1 => /\ c.token = auth_token[i]
                          /\ c.token = <<i, 1>>
                          /\ c.token \in tokens_issued
              /\ \A j \in Invocations : \A l \in DOMAIN http_calls[j] :
                    (http_calls[j][l].session = c.session) => (j = i /\ l = k)
              /\ c.session \in sessions_opened
              /\ (c.session \notin sessions_closed)
                    <=> (k = Len(http_calls[i]) /\ session[i] = c.session)
        /\ session[i] # NoSession
              <=> inv_pc[i] \in {"login", "fetch", "submit", "poll", "sleep"}

\* two invocations are in flight at once, each with a call that carries the
\* token of its own login
Wit_C23 ==
    /\ inv_pc[1] = "fetch"
    /\ inv_pc[2] = "poll"
    /\ LastCall(1).token = <<1, 1>>
    /\ LastCall(2).token = <<2, 1>>
    /\ api_attempt[2] = 2

\* C24: a response that is not 2xx to a login, job submission, dataset fetch
\* or status poll ends the operation with the error of that response: the
\* failed call is the last call the invocation ever makes (no retry, no
\* submit after a failed login, no poll after a failed submit or poll) and
\* no score is computed after it.
Thm_C24 ==
    \A i \in Invocations : \A k \in DOMAIN http_calls[i] :
        (http_calls[i][k].http = "error")
        => /\ k = Len(http_calls[i])
           /\ inv_pc[i] = "failed"
           /\ api_out[i] = [NoScoreData EXCEPT !.raised = "ClientResponseError"]
           /\ http_calls[i][k].session \in sessions_closed

\* one invocation has ended at a failed fetch and another at a failed first
\* status poll, with attempts to spare
Wit_C24 ==
    /\ inv_pc[1] = "failed"
    /\ LastCall(1).call = "fetch"
    /\ LastCall(1).http = "error"
    /\ inv_pc[2] = "failed"
    /\ LastCall(2).call = "poll"
    /\ LastCall(2).http = "error"
    /\ api_attempt[2] = 1
    /\ api_attempt[2] < ApiMaxAttempts

\* C26 (as claimed): every dataset fetch posts a query with lat, lng, the
\* categories joined with " OR " as boolean_query, the requested radius and
\* action "sample", under the bearer token of the preceding login, for the
\* competition and the complementary calculator in both implementations.
CE_C26 ==
    \A i \in Invocations : \A k \in DOMAIN http_calls[i] :
        LET c == http_calls[i][k] IN
        (c.call = "fetch")
        => /\ c.body.lat = Num(inv_req[i].lat)
           /\ c.body.lng = Num(inv_req[i].lng)
           /\ c.body.boolean_query = Join(" OR ", inv_req[i].categories)
           /\ c.body.action = "sample"
           /\ c.body.radius = Num(inv_req[i].radius)
           /\ c.token = auth_token[i]
           /\ c.token # NoToken

\* C25 (as claimed): for every record list and every integer
\* target_num_per_category the schema accepts, 0 included, the competition
\* and complementary calculators do not raise, every factor they report
\* lies in [0, 1] and the score lies in [0, 100].
CE_C25 ==
    (calc_pc = "done" /\ calc \in {"competition", "complementary"})
    => /\ score_out.raised = "-"
       /\ \A k \in DOMAIN score_out.factors :
             score_out.factors[k] >= 0 /\ score_out.factors[k] <= 10000
       /\ score_out.score >= 0
       /\ score_out.score <= 1000000

\* C27: a task holds a connection only while the body of its operation
\* runs; when the body ends, by completing, raising or being cancelled, the
\* connection goes back to the pool it was acquired from, also when a
\* refresh has replaced the shared reference meanwhile; once every task is
\* idle no connection is checked out.
Thm_C27 ==
    /\ \A t \in Tasks :
          /\ conn[t] # NoPool <=> pc[t] = "using"
          /\ event[t] \in {"executed", "execute_failed", "cancelled"}
                => release_log # NoRelease
    /\ release_log.own
    /\ (\A t \in Tasks : pc[t] = "idle") => (\A t \in Tasks : conn[t] = NoPool)

\* a cancelled task has given its connection back to a pool that the shared
\* reference no longer named, and every task is idle
Wit_C27 ==
    /\ \A t \in Tasks : pc[t] = "idle" /\ conn[t] = NoPool
    /\ \E t \in Tasks :
          /\ event[t] = "cancelled"
          /\ release_log = [task |-> t, own |-> TRUE, stale |-> TRUE]

\* C28: poll_job_status sleeps after every non-terminal answer, the answer
\* to the last permitted attempt included: when the timeout is raised the
\* sleeps performed equal the status requests issued (60 with the default
\* ceiling), and the answer before the timeout was a non-terminal one whose
\* sleep was followed by no further request.
Thm_C28 ==
    raised.type = "timeout"
    => /\ sleeps = requests
       /\ requests = served
       /\ max_attempts = DefaultMaxAttempts => sleeps = DefaultMaxAttempts
       /\ requests > 0
            => /\ last_served.http = "ok"
               /\ last_served.status \in NonTerminalStatuses \cup UnrecognizedStatuses

Wit_C28 ==
    /\ raised.type = "timeout"
    /\ poll_pc = "failed"
    /\ max_attempts = DefaultMaxAttempts
    /\ requests = 60
    /\ sleeps = 60
    /\ last_served.status = "running"

\* C29 (as claimed): for every non-empty competitor list, every
\* target_num_per_category > 0 and every category key, the competition
\* score of the list with one more competitor of that key is not higher
\* than the score of the list.
CE_C29 ==
    (calc = "competition" /\ calc_pc = "done" /\ businesses # <<>>
        /\ target_num_per_category > 0)
    => \A t \in TypesValues :
          calculate_score_from_competition_data(
              entry, Append(businesses, Business(t)), target_num_per_category).score
          <= score_out.score

=============================================================================
